---- MODULE Spec2Model ----
(***************************************************************************)
(* A model of evaluate_texts.py: the batch-submission / SSE-streaming /    *)
(* reconciliation pipeline (main -> process_folder -> evaluate_texts ->    *)
(* submit_evaluation_job / stream_results).                                *)
(*                                                                         *)
(* Text is a sequence of tokens.  File names and identifiers are sequences *)
(* of one-character strings.  The body of an SSE response is a sequence of *)
(* tokens, each standing for its literal text: "\n", " ", the line         *)
(* prefixes "event:" and "data:", an event name, or one JSON document.     *)
(* The response body is only ever searched for "\n\n" before it is cut     *)
(* into frames, so a chunk boundary inside a token other than the          *)
(* newlines behaves like a boundary next to it.                            *)
(***************************************************************************)
EXTENDS Naturals, Integers, Sequences, FiniteSets, TLC

VARIABLES
    folders,        \* args.folders with the data on disk: name, prompt table, files
    batch_size,     \* args.batch_size
    fi,             \* main: index of the folder being processed (for-loop position)
    pc,             \* control position of the single thread
    written,        \* per-folder reports written by main (results_df.to_csv)
    reports,        \* the results_<folder>_<stamp>.csv files on disk
    combined,       \* what combine_results did, and the combined report it wrote
    outcomes,       \* how the processing of each finished folder ended
    i,              \* process_folder: start offset of the current chunk of nor_files
    all_results,    \* process_folder: accumulated rows
    batch_items,    \* process_folder: items of the current batch
    file_metadata,  \* process_folder: metadata of the current batch
    visited,        \* process_folder: the batch_files of the loop iterations so far
    sleeps,         \* number of time.sleep(1) pauses executed in the current folder
    jobs,           \* the POST /evaluate requests sent so far and what became of them
    incoming,       \* chunks the server will still deliver on the open response
    sent,           \* the frames the server wrote on the open response
    delivered,      \* chunks read so far from the open response
    buffer,         \* stream_results: buffer
    results,        \* stream_results: results (then evaluate_texts' return value)
    terminal,       \* a `complete` or `error` frame has been consumed on this response
    call_id,        \* extract_curso_from_id called on its own: the argument text_id
    call_curso      \* extract_curso_from_id called on its own: the value returned

configVars == <<folders, batch_size>>
mainVars   == <<fi, written, outcomes, reports, combined>>
folderVars == <<i, all_results, batch_items, file_metadata, visited, sleeps>>
streamVars == <<incoming, sent, delivered, buffer, results, terminal>>
callVars   == <<call_id, call_curso>>
vars == <<folders, batch_size, fi, pc, written, reports, combined, outcomes, i,
          all_results, batch_items, file_metadata, visited, sleeps, jobs, incoming,
          sent, delivered, buffer, results, terminal, call_id, call_curso>>

(***************************************************************************)
(* Bounds of the model.                                                    *)
(***************************************************************************)
MaxFrames == 3      \* frames the server writes on one response (stream_results alone)
MaxRunFrames == 2   \* frames the server writes on all the responses of a run
MaxFiles == 2       \* normalized files of a folder (one-folder runs)
MaxFolders == 2     \* folders of a run
MaxBatch == 2       \* largest --batch-size tried
MaxIdLen == 3       \* longest identifier given to extract_curso_from_id on its own
MaxStemLen == 3     \* longest text before the suffix of a generated file name

(***************************************************************************)
(* Text helpers: str.strip, str.split('\n'), the search for '\n\n'.        *)
(***************************************************************************)
NL == "\n"
SP == " "

IsSpace(t) == t \in {NL, SP}

RECURSIVE LStrip(_)
LStrip(s) == IF s # <<>> /\ IsSpace(Head(s)) THEN LStrip(Tail(s)) ELSE s

RECURSIVE RStrip(_)
RStrip(s) ==
    IF s # <<>> /\ IsSpace(s[Len(s)]) THEN RStrip(SubSeq(s, 1, Len(s) - 1)) ELSE s

\* str.strip(): leading and trailing whitespace removed
Strip(s) == RStrip(LStrip(s))

\* index of the first newline of s, 0 when there is none
FirstNewline(s) ==
    IF \E k \in 1..Len(s) : s[k] = NL
    THEN CHOOSE k \in 1..Len(s) : s[k] = NL /\ \A j \in 1..(k - 1) : s[j] # NL
    ELSE 0

\* str.split('\n')
RECURSIVE SplitLines(_)
SplitLines(s) ==
    LET k == FirstNewline(s)
    IN  IF k = 0 THEN <<s>>
        ELSE <<SubSeq(s, 1, k - 1)>> \o SplitLines(SubSeq(s, k + 1, Len(s)))

\* index of the first '\n\n' of s, 0 when there is none ('\n\n' in buffer)
FirstBlankLine(s) ==
    IF \E k \in 1..(Len(s) - 1) : s[k] = NL /\ s[k + 1] = NL
    THEN CHOOSE k \in 1..(Len(s) - 1) :
            /\ s[k] = NL /\ s[k + 1] = NL
            /\ \A j \in 1..(k - 1) : ~(s[j] = NL /\ s[j + 1] = NL)
    ELSE 0

RECURSIVE Concat(_)
Concat(ss) == IF ss = <<>> THEN <<>> ELSE Head(ss) \o Concat(Tail(ss))

(***************************************************************************)
(* Identifiers, and the JSON documents a data line may carry.              *)
(***************************************************************************)
Id114 == <<"1", "1", "4">>
Id115 == <<"1", "1", "5">>
Id999 == <<"9", "9", "9">>
Id11410001 == <<"1", "1", "4", "1", "0", "0", "0", "1">>
Id11510002 == <<"1", "1", "5", "1", "0", "0", "0", "2">>

Result(id, nota) == [id_alumno |-> id, nota |-> nota, feedback |-> "ok"]

JsonR114     == "{\"results\":[{\"id_alumno\":\"114\",\"nota\":7,\"feedback\":\"ok\"}]}"
JsonR115     == "{\"results\":[{\"id_alumno\":\"115\",\"nota\":5,\"feedback\":\"ok\"}]}"
JsonR999     == "{\"results\":[{\"id_alumno\":\"999\",\"nota\":3,\"feedback\":\"ok\"}]}"
JsonR114x2   == "{\"results\":[{\"id_alumno\":\"114\",\"nota\":7,\"feedback\":\"ok\"},{\"id_alumno\":\"114\",\"nota\":9,\"feedback\":\"ok\"}]}"
JsonRBoth    == "{\"results\":[{\"id_alumno\":\"11410001\",\"nota\":7,\"feedback\":\"ok\"},{\"id_alumno\":\"11510002\",\"nota\":5,\"feedback\":\"ok\"}]}"
JsonEmptyObj == "{}"
JsonMessage  == "{\"message\":\"boom\"}"
JsonArray    == "[]"
JsonCorrupt  == "{\"results\":["

\* a decoded JSON object with the entries of its "results" key, if it has the key
JsonObject(keys, res) == [kind |-> "object", keys |-> keys, results |-> res]
NoData == [kind |-> "absent", keys |-> {}, results |-> <<>>]

\* json.loads on the stripped text of a data line: ok is FALSE on JSONDecodeError
JsonLoads(text) ==
    IF Len(text) # 1 THEN [ok |-> FALSE, value |-> NoData]
    ELSE CASE text[1] = JsonR114 ->
                [ok |-> TRUE, value |-> JsonObject({"results"}, <<Result(Id114, 7)>>)]
           [] text[1] = JsonR115 ->
                [ok |-> TRUE, value |-> JsonObject({"results"}, <<Result(Id115, 5)>>)]
           [] text[1] = JsonR999 ->
                [ok |-> TRUE, value |-> JsonObject({"results"}, <<Result(Id999, 3)>>)]
           [] text[1] = JsonR114x2 ->
                [ok |-> TRUE,
                 value |-> JsonObject({"results"}, <<Result(Id114, 7), Result(Id114, 9)>>)]
           [] text[1] = JsonRBoth ->
                [ok |-> TRUE,
                 value |-> JsonObject({"results"},
                                      <<Result(Id11410001, 7), Result(Id11510002, 5)>>)]
           [] text[1] = JsonEmptyObj ->
                [ok |-> TRUE, value |-> JsonObject({}, <<>>)]
           [] text[1] = JsonMessage ->
                [ok |-> TRUE, value |-> JsonObject({"message"}, <<>>)]
           [] text[1] = JsonArray ->
                [ok |-> TRUE, value |-> [kind |-> "array", keys |-> {}, results |-> <<>>]]
           [] OTHER -> [ok |-> FALSE, value |-> NoData]

(***************************************************************************)
(* stream_results: parsing one frame and handling its event.               *)
(***************************************************************************)
EventLine == "event:"
DataLine  == "data:"

NoEventData == [has_event |-> FALSE, event |-> <<>>, data |-> NoData]

\* one iteration of `for line in lines`
ParseLine(event_data, line) ==
    IF line # <<>> /\ Head(line) = EventLine
    THEN [event_data EXCEPT !.has_event = TRUE, !.event = Strip(Tail(line))]
    ELSE IF line # <<>> /\ Head(line) = DataLine
    THEN LET d == JsonLoads(Strip(Tail(line)))
         IN  IF d.ok THEN [event_data EXCEPT !.data = d.value] ELSE event_data
    ELSE event_data

RECURSIVE ParseLines(_, _)
ParseLines(event_data, lines) ==
    IF lines = <<>> THEN event_data
    ELSE ParseLines(ParseLine(event_data, Head(lines)), Tail(lines))

\* lines = event_text.strip().split('\n'), then the loop over the lines
ParseFrame(event_text) == ParseLines(NoEventData, SplitLines(Strip(event_text)))

\* event_data.get('data', {}): the decoded document, {} when the frame has none
DataOrEmpty(event_data) ==
    IF event_data.data.kind = "absent" THEN JsonObject({}, <<>>) ELSE event_data.data

\* .get('results', [])
GetResults(d) == IF "results" \in d.keys THEN d.results ELSE <<>>

IsEvent(event_data, name) == event_data.has_event /\ event_data.event = <<name>>

\* the if / elif chain on the event type: the new results, whether the inner
\* loop breaks, and whether .get on a document that is no object raised
HandleEvent(event_data, res) ==
    IF IsEvent(event_data, "batch_complete")
    THEN IF DataOrEmpty(event_data).kind # "object"
         THEN [results |-> res, break |-> FALSE, raised |-> TRUE]
         ELSE [results |-> res \o GetResults(DataOrEmpty(event_data)),
               break |-> FALSE, raised |-> FALSE]
    ELSE IF IsEvent(event_data, "complete")
    THEN [results |-> res, break |-> TRUE, raised |-> FALSE]
    ELSE IF IsEvent(event_data, "error")
    THEN IF DataOrEmpty(event_data).kind # "object"
         THEN [results |-> res, break |-> FALSE, raised |-> TRUE]
         ELSE [results |-> res, break |-> TRUE, raised |-> FALSE]
    ELSE [results |-> res, break |-> FALSE, raised |-> FALSE]

\* what the inner loop does on `break`: it leaves the loop over the frames of the
\* buffer, and the rest of the buffer stays where it is
AfterBreak(rest, res) ==
    [buffer |-> rest, results |-> res, terminal |-> TRUE, raised |-> FALSE]

\* while '\n\n' in buffer: ... (the inner loop, run until it ends, breaks or raises)
RECURSIVE ProcessBuffer(_, _)
ProcessBuffer(buf, res) ==
    LET k == FirstBlankLine(buf)
    IN  IF k = 0
        THEN [buffer |-> buf, results |-> res, terminal |-> FALSE, raised |-> FALSE]
        ELSE LET event_text == SubSeq(buf, 1, k - 1)
                 rest       == SubSeq(buf, k + 2, Len(buf))
                 h          == HandleEvent(ParseFrame(event_text), res)
             IN  IF h.raised
                 THEN [buffer |-> rest, results |-> res,
                       terminal |-> FALSE, raised |-> TRUE]
                 ELSE IF h.break
                 THEN AfterBreak(rest, h.results)
                 ELSE ProcessBuffer(rest, h.results)

\* one iteration of `for chunk in response.iter_content(...)`
OnChunk(st, chunk) ==
    IF chunk = <<>> THEN st
    ELSE LET r == ProcessBuffer(st.buffer \o chunk, st.results)
         IN  [buffer |-> r.buffer, results |-> r.results,
              terminal |-> st.terminal \/ r.terminal, raised |-> r.raised]

StreamStart == [buffer |-> <<>>, results |-> <<>>, terminal |-> FALSE, raised |-> FALSE]

\* stream_results on a response whose body arrives as `chunks` and then ends
RECURSIVE RunChunks(_, _)
RunChunks(st, chunks) ==
    IF chunks = <<>> \/ st.raised THEN st
    ELSE RunChunks(OnChunk(st, Head(chunks)), Tail(chunks))

StreamResultsOf(chunks) == RunChunks(StreamStart, chunks)

(***************************************************************************)
(* File names, identifiers and grade levels.                               *)
(***************************************************************************)
Digits == {"0", "1", "2", "3", "4", "5", "6", "7", "8", "9"}

NorSuffix == <<"_", "N", "O", "R", ".", "t", "x", "t">>

\* a group of any characters
IsAnyText(s) == TRUE

IsDigits(s) == \A k \in 1..Len(s) : s[k] \in Digits

\* the places where `$` matches: the end of the name, and just before a newline
\* that ends the name
DollarEnds(filename) ==
    {Len(filename)} \cup
    (IF filename # <<>> /\ filename[Len(filename)] = NL THEN {Len(filename) - 1} ELSE {})

\* re.search(r'_(\d+)_NOR\.txt$', filename): the positions p of a "_" that is
\* followed by one or more digits and then by "_NOR.txt" where `$` matches
IdMatches(filename) ==
    {p \in 1..Len(filename) :
        \E e \in DollarEnds(filename) :
            /\ filename[p] = "_"
            /\ e - Len(NorSuffix) >= p + 1
            /\ IsDigits(SubSeq(filename, p + 1, e - Len(NorSuffix)))
            /\ SubSeq(filename, e - Len(NorSuffix) + 1, e) = NorSuffix}

\* the place where the match that starts at p ends
MatchEnd(filename, p) ==
    CHOOSE e \in DollarEnds(filename) :
        /\ e - Len(NorSuffix) >= p + 1
        /\ IsDigits(SubSeq(filename, p + 1, e - Len(NorSuffix)))
        /\ SubSeq(filename, e - Len(NorSuffix) + 1, e) = NorSuffix

\* extract_id_from_filename: match.group(1) of the leftmost match, <<>> for None
extract_id_from_filename(filename) ==
    IF IdMatches(filename) = {} THEN <<>>
    ELSE LET p == CHOOSE q \in IdMatches(filename) : \A r \in IdMatches(filename) : q <= r
         IN  SubSeq(filename, p + 1, MatchEnd(filename, p) - Len(NorSuffix))

DigitValue(c) ==
    CASE c = "0" -> 0 [] c = "1" -> 1 [] c = "2" -> 2 [] c = "3" -> 3 [] c = "4" -> 4
      [] c = "5" -> 5 [] c = "6" -> 6 [] c = "7" -> 7 [] c = "8" -> 8 [] c = "9" -> 9

\* curso_ordinals.get(curso_num, f'{curso_num}è ESO')
CursoOrdinal(n) ==
    CASE n = 1 -> "1r ESO" [] n = 2 -> "2n ESO" [] n = 3 -> "3r ESO"
      [] n = 4 -> "4t ESO" [] n = 5 -> "5è ESO" [] n = 6 -> "6è ESO"
      [] n = 0 -> "0è ESO" [] n = 7 -> "7è ESO" [] n = 8 -> "8è ESO"
      [] n = 9 -> "9è ESO"

\* a labelling that ignores the identifier
CursoAlwaysFallback(text_id) == "4t ESO"

\* extract_curso_from_id: the character at index 2 decides; int() of a character
\* that is no digit raises ValueError, which yields the fallback
extract_curso_from_id(text_id) ==
    IF Len(text_id) < 3 THEN "4t ESO"
    ELSE IF text_id[3] \in Digits THEN CursoOrdinal(DigitValue(text_id[3]))
    ELSE "4t ESO"

\* the characters of the names, in code point order
CharOrder ==
    <<NL, SP, ".", "0", "1", "2", "3", "4", "5", "6", "7", "8", "9",
      "A", "B", "C", "D", "N", "O", "P", "R", "S", "_", "b", "c", "s", "t", "v", "x">>

CharCode(c) == CHOOSE k \in 1..Len(CharOrder) : CharOrder[k] = c

\* a < b for two strings, as sorted() compares the names of the paths of a folder
RECURSIVE NameLess(_, _)
NameLess(a, b) ==
    IF b = <<>> THEN FALSE
    ELSE IF a = <<>> THEN TRUE
    ELSE IF Head(a) = Head(b) THEN NameLess(Tail(a), Tail(b))
    ELSE CharCode(Head(a)) < CharCode(Head(b))

\* one entry put at its place in a sorted sequence of directory entries
RECURSIVE InsertSorted(_, _)
InsertSorted(entry, sorted) ==
    IF sorted = <<>> THEN <<entry>>
    ELSE IF NameLess(entry.name, Head(sorted).name) THEN <<entry>> \o sorted
    ELSE <<Head(sorted)>> \o InsertSorted(entry, Tail(sorted))

RECURSIVE SortByName(_)
SortByName(entries) ==
    IF entries = <<>> THEN <<>>
    ELSE InsertSorted(Head(entries), SortByName(Tail(entries)))

EndsWith(name, suffix) ==
    /\ Len(name) >= Len(suffix)
    /\ SubSeq(name, Len(name) - Len(suffix) + 1, Len(name)) = suffix

\* folder_path.glob('*_NOR.txt') on the entries of the directory
GlobNor(entries) == SelectSeq(entries, LAMBDA e : EndsWith(e.name, NorSuffix))

\* get_nor_files: sorted(folder_path.glob('*_NOR.txt'))
get_nor_files(entries) == SortByName(GlobNor(entries))

\* a read that returns the content as it is
ReadWithoutStrip(file) == IF file.readable THEN file.content ELSE <<>>

\* read_text_file: f.read().strip(), "" when opening or reading raises
read_text_file(file) == IF file.readable THEN Strip(file.content) ELSE <<>>

(***************************************************************************)
(* The prompt table: load_consignas_csv and the lookup of process_folder.  *)
(* A table on disk is [exists, columns, rows]; a row gives the identifier  *)
(* cell as written in the file and the prompt text cell.  A DataFrame is   *)
(* [columns, rows].                                                        *)
(***************************************************************************)
EmptyFrame == [columns |-> {}, rows |-> <<>>]

\* df.rename(columns={old: new}) when old is a column
RenameColumn(columns, old, new) ==
    IF old \in columns THEN (columns \ {old}) \cup {new} ELSE columns

load_consignas_csv(table) ==
    IF ~table.exists THEN EmptyFrame
    ELSE [columns |-> RenameColumn(RenameColumn(table.columns, "File ID", "FileID"),
                                   "TEXTpost2", "Consigna"),
          rows |-> table.rows]

\* DataFrame.empty: no row or no column
FrameEmpty(df) == df.rows = <<>> \/ df.columns = {}

RECURSIVE StripZeros(_)
StripZeros(s) == IF Len(s) > 1 /\ Head(s) = "0" THEN StripZeros(Tail(s)) ELSE s

\* consignas_df['ID'].astype(str) of one cell: the column is read as integers,
\* so the text of a cell comes back without its leading zeros
IdCellAsStr(cell) == StripZeros(cell)

\* consignas_df[consignas_df['ID'].astype(str) == text_id]
MatchingRows(df, text_id) ==
    SelectSeq(df.rows, LAMBDA r : IdCellAsStr(r.ID) = text_id)

NoPrompt == "N/A"

\* what becomes of a file whose identifier has no row (lines 275-277): it stays
\* an item of the batch
KeptWithoutPrompt == "item"

\* lines 257-295 for one file: "skip" (continue), "raise" (KeyError on a missing
\* column) or "item" with the API item and its metadata
PrepareFile(df, file) ==
    LET text_id   == extract_id_from_filename(file.name)
        curso     == extract_curso_from_id(text_id)
        respuesta == read_text_file(file)
        none      == [id_alumno |-> <<>>, curso |-> "", consigna |-> "", respuesta |-> <<>>]
    IN  IF text_id = <<>> THEN [kind |-> "skip", item |-> none, filename |-> file.name]
        ELSE IF respuesta = <<>> THEN [kind |-> "skip", item |-> none, filename |-> file.name]
        ELSE IF "ID" \notin df.columns
        THEN [kind |-> "raise", item |-> none, filename |-> file.name]
        ELSE IF MatchingRows(df, text_id) = <<>>
        THEN [kind |-> KeptWithoutPrompt, filename |-> file.name,
              item |-> [id_alumno |-> text_id, curso |-> curso,
                        consigna |-> NoPrompt, respuesta |-> respuesta]]
        ELSE IF "Consigna" \notin df.columns
        THEN [kind |-> "raise", item |-> none, filename |-> file.name]
        ELSE [kind |-> "item", filename |-> file.name,
              item |-> [id_alumno |-> text_id, curso |-> curso,
                        consigna |-> MatchingRows(df, text_id)[1].prompt,
                        respuesta |-> respuesta]]

Metadata(p) == [id |-> p.item.id_alumno, filename |-> p.filename,
                consigna |-> p.item.consigna, curso |-> p.item.curso]

\* the loop `for file_path in batch_files`: the items and metadata built, and
\* whether the loop raised
RECURSIVE PrepareBatch(_, _, _)
PrepareBatch(df, files, acc) ==
    IF files = <<>> THEN acc
    ELSE LET p == PrepareFile(df, Head(files))
         IN  IF p.kind = "raise" THEN [acc EXCEPT !.raised = TRUE]
             ELSE IF p.kind = "skip" THEN PrepareBatch(df, Tail(files), acc)
             ELSE PrepareBatch(df, Tail(files),
                               [acc EXCEPT !.items = Append(@, p.item),
                                           !.metadata = Append(@, Metadata(p))])

NoBatch == [items |-> <<>>, metadata |-> <<>>, raised |-> FALSE]

Min(a, b) == IF a <= b THEN a ELSE b

\* a slice that runs one file into the next chunk
BatchFilesOverlapping(nor_files, at, size) ==
    SubSeq(nor_files, at + 1, Min(at + size + 1, Len(nor_files)))

\* nor_files[i:i+batch_size]
BatchFiles(nor_files, at, size) == SubSeq(nor_files, at + 1, Min(at + size, Len(nor_files)))

(***************************************************************************)
(* Matching the results of a batch with its metadata (lines 305-318).      *)
(***************************************************************************)
\* next((m for m in file_metadata if m['id'] == id_alumno), None) as the
\* sequence of the matching entries: its head is the entry used
MatchAnyMetadata(metadata, id_alumno) == metadata
\* the matching entries, the last one first
MatchLastMetadata(metadata, id_alumno) ==
    LET found == SelectSeq(metadata, LAMBDA m : m.id = id_alumno)
    IN  [k \in 1..Len(found) |-> found[Len(found) + 1 - k]]
MatchMetadata(metadata, id_alumno) == SelectSeq(metadata, LAMBDA m : m.id = id_alumno)

ResultRow(folder_name, result, m) ==
    [folder |-> folder_name, id |-> result.id_alumno, filename |-> m.filename,
     curso |-> m.curso, consigna |-> m.consigna, nota |-> result.nota,
     feedback |-> result.feedback]

\* a matching that keeps the first result of each id_alumno only
RECURSIVE MatchResultsOnce(_, _, _)
MatchResultsOnce(folder_name, res, metadata) ==
    IF res = <<>> THEN <<>>
    ELSE LET found == MatchMetadata(metadata, Head(res).id_alumno)
             rest  == SelectSeq(Tail(res), LAMBDA r : r.id_alumno # Head(res).id_alumno)
         IN  (IF found = <<>> THEN <<>>
              ELSE <<ResultRow(folder_name, Head(res), Head(found))>>)
             \o MatchResultsOnce(folder_name, rest, metadata)

RECURSIVE MatchResults(_, _, _)
MatchResults(folder_name, res, metadata) ==
    IF res = <<>> THEN <<>>
    ELSE LET found == MatchMetadata(metadata, Head(res).id_alumno)
         IN  (IF found = <<>> THEN <<>>
              ELSE <<ResultRow(folder_name, Head(res), Head(found))>>)
             \o MatchResults(folder_name, Tail(res), metadata)

(***************************************************************************)
(* Reports: DataFrame.to_csv, pd.read_csv and combine_results.  A report   *)
(* file is [folder, stamp, rows]: it is results_<folder>_<stamp>.csv in    *)
(* the directory of the folder, and its rows hold the text of the cells.   *)
(***************************************************************************)
\* the missing value of a DataFrame
NaN == "<NaN>"

\* cell texts that read_csv takes for a missing value (keep_default_na): the
\* nineteen default texts of pandas
NaValues ==
    {"", "#N/A", "#N/A N/A", "#NA", "-1.#IND", "-1.#QNAN", "-NaN", "-nan", "1.#IND",
     "1.#QNAN", "<NA>", "N/A", "NA", "NULL", "NaN", "None", "n/a", "nan", "null"}

\* read_csv on a cell of a text column
ReadText(cell) == IF cell \in NaValues THEN NaN ELSE cell

\* to_csv on a cell: a missing value is written as the empty text (na_rep)
WriteCell(value) == IF value = NaN THEN "" ELSE value

\* read_csv on one row: the id column holds digits only and is read as
\* integers, the text columns are read with the missing values recognised
ReadRow(row) ==
    [folder |-> ReadText(row.folder), id |-> StripZeros(row.id), filename |-> row.filename,
     curso |-> ReadText(row.curso), consigna |-> ReadText(row.consigna),
     nota |-> row.nota, feedback |-> ReadText(row.feedback)]

WriteRow(row) ==
    [folder |-> WriteCell(row.folder), id |-> row.id, filename |-> row.filename,
     curso |-> WriteCell(row.curso), consigna |-> WriteCell(row.consigna),
     nota |-> row.nota, feedback |-> WriteCell(row.feedback)]

\* pd.read_csv(path) and df.to_csv(path, index=False)
read_csv(rows) == [k \in 1..Len(rows) |-> ReadRow(rows[k])]
to_csv(frame) == [k \in 1..Len(frame) |-> WriteRow(frame[k])]

\* timestamp = datetime.now().strftime(...): the stamp of this run
timestamp == <<"2", "0">>

ReportFile(folder_name, stamp, rows) == [folder |-> folder_name, stamp |-> stamp, rows |-> rows]

\* the part of the name of a report that follows "results_<folder>_"
ReportName(report) == report.stamp \o <<".", "c", "s", "v">>

\* folder_path.glob(f"results_{folder_name}_*.csv")
GlobReports(disk, folder_name) == {r \in disk : r.folder = folder_name}

\* sorted(...)[-1]: the file whose name is the greatest
LatestCsv(files) ==
    CHOOSE r \in files : \A q \in files \ {r} : NameLess(ReportName(q), ReportName(r))

\* a loop that ends at the first folder without a report
RECURSIVE LoadedReportsUntilGap(_, _)
LoadedReportsUntilGap(disk, names) ==
    IF names = <<>> \/ GlobReports(disk, Head(names)) = {} THEN <<>>
    ELSE <<LatestCsv(GlobReports(disk, Head(names)))>>
         \o LoadedReportsUntilGap(disk, Tail(names))

\* the loop of combine_results over the folders: the files it loads, in order
RECURSIVE LoadedReports(_, _)
LoadedReports(disk, names) ==
    IF names = <<>> THEN <<>>
    ELSE (IF GlobReports(disk, Head(names)) = {} THEN <<>>
          ELSE <<LatestCsv(GlobReports(disk, Head(names)))>>)
         \o LoadedReports(disk, Tail(names))

\* pd.concat(all_results, ignore_index=True)
RECURSIVE ConcatFrames(_)
ConcatFrames(frames) ==
    IF frames = <<>> THEN <<>> ELSE Head(frames) \o ConcatFrames(Tail(frames))

\* the combined report written for the files loaded
CombinedCsv(loaded) ==
    to_csv(ConcatFrames([k \in 1..Len(loaded) |-> read_csv(loaded[k].rows)]))

NotCombined == [state |-> "none", loaded |-> <<>>, rows |-> <<>>]

\* combine_results: the combined report, or nothing when no file was found
combine_results(disk, names) ==
    LET loaded == LoadedReports(disk, names)
    IN  IF loaded = <<>> THEN [state |-> "nothing", loaded |-> <<>>, rows |-> <<>>]
        ELSE [state |-> "written", loaded |-> loaded, rows |-> CombinedCsv(loaded)]

(***************************************************************************)
(* The inputs: files, prompt tables, folders, and what the service writes. *)
(***************************************************************************)
FileName(prefix, id) == prefix \o <<"_">> \o id \o NorSuffix

File(name, content, readable) == [name |-> name, content |-> content, readable |-> readable]

\* the normalized files a folder may hold, in the order sorted() gives them
FileCatalog ==
    << File(FileName(<<"A">>, Id114), <<"Hello">>, TRUE),
       File(FileName(<<"A">>, Id115), <<SP, "World", NL>>, TRUE),
       File(FileName(<<"A">>, <<"x">>), <<"Hello">>, TRUE),
       File(FileName(<<"B">>, Id114), <<"Again">>, TRUE),
       File(FileName(<<"C">>, <<"1", "1", "6">>), <<SP, NL>>, TRUE),
       File(FileName(<<"D">>, <<"1", "1", "7">>), <<"Lost">>, FALSE) >>

\* the entries of FileCatalog at the indexes of `picked`, in catalogue order
RECURSIVE PickFiles(_, _)
PickFiles(picked, k) ==
    IF k > Len(FileCatalog) THEN <<>>
    ELSE (IF k \in picked THEN <<FileCatalog[k]>> ELSE <<>>) \o PickFiles(picked, k + 1)

FileLists(max) ==
    {PickFiles(picked, 1) :
        picked \in {q \in SUBSET (1..Len(FileCatalog)) : Cardinality(q) <= max}}

PromptRow(id, prompt) == [ID |-> id, prompt |-> prompt]

Table(columns, rows) == [exists |-> TRUE, columns |-> columns, rows |-> rows]

MissingTable == [exists |-> FALSE, columns |-> {}, rows |-> <<>>]
HeaderOnlyTable == Table({"File ID", "ID", "Consigna"}, <<>>)
GoodTable == Table({"File ID", "ID", "Consigna"}, <<PromptRow(Id114, "Describe X")>>)
PostTable ==
    Table({"FileID", "ID", "TEXTpost2"},
          <<PromptRow(Id114, "Describe Y"), PromptRow(<<"0">> \o Id115, "Describe Z")>>)
OtherIdsTable == Table({"File ID", "ID", "Consigna"}, <<PromptRow(Id999, "Describe W")>>)
\* tables that lack a column the lookup reads: their rows have no such cell
NoIdColumnTable == Table({"File ID", "Consigna"}, <<PromptRow(<<>>, "Describe X")>>)
NoPromptColumnTable == Table({"File ID", "ID"}, <<PromptRow(Id114, "")>>)

TableCatalog ==
    {MissingTable, HeaderOnlyTable, GoodTable, PostTable, OtherIdsTable,
     NoIdColumnTable, NoPromptColumnTable}

Folder(name, table, files) == [name |-> name, table |-> table, files |-> files]

\* names for the folders of a run (DEFAULT_FOLDERS and one more)
FolderNames == <<"POS1", "POS2", "PRE", "POS3">>

Reverse(seq) == [k \in 1..Len(seq) |-> seq[Len(seq) + 1 - k]]

\* a text file that was not normalized
RawFile == File(<<"A", "_">> \o Id114 \o <<".", "t", "x", "t">>, <<"Hello">>, TRUE)

\* directories that list their entries in another order than the sorted one and
\* hold a file that is not a normalized one, with one normalized file more than
\* the other directories have
UnsortedListings ==
    {Reverse(fs) \o <<RawFile>> : fs \in {ls \in FileLists(MaxFiles + 1) : Len(ls) = MaxFiles + 1}}

\* one folder of a one-folder run
FolderCatalog ==
    {Folder("POS1", t, fs) : t \in TableCatalog, fs \in FileLists(MaxFiles)}
    \cup {Folder("POS1", GoodTable, ls) : ls \in UnsortedListings}

\* the folders of a run over several folders
RunFolderCatalog ==
    {Folder("PRE", t, <<FileCatalog[1]>>) :
        t \in {MissingTable, HeaderOnlyTable, GoodTable, NoIdColumnTable}}
    \cup {Folder("PRE", GoodTable, fs) : fs \in {<<>>, <<FileCatalog[1], FileCatalog[5]>>}}

SeqsUpTo(S, n) == UNION {[1..k -> S] : k \in 0..n}

\* a folder of a run that writes no report: its prompt table is missing
SkippedFolder == Folder("PRE", MissingTable, <<FileCatalog[1]>>)

\* a folder with one file, which has no prompt
PromptlessFolder == Folder("PRE", OtherIdsTable, <<FileCatalog[1]>>)

\* what follows "results_<folder>_" in the names of the reports other runs left:
\* a stamp earlier than this run's, a later one, and a text that is no stamp
EarlierStamp == <<"1", "9">>
LaterStamp == <<"2", "1">>
BackupStamp == <<"b">>
OtherStamps == {EarlierStamp, LaterStamp, BackupStamp}

\* a row of a report of another run
ReportRow(folder_name, id, prompt, nota) ==
    ResultRow(folder_name, Result(id, nota),
              [id |-> id, filename |-> FileName(<<"A">>, id), consigna |-> prompt,
               curso |-> extract_curso_from_id(id)])

\* the report another run left in the directory of a folder under a stamp; the
\* earlier one has a row for a file that had no prompt
OtherReport(folder_name, stamp) ==
    IF stamp = EarlierStamp
    THEN ReportFile(folder_name, stamp,
                    <<ReportRow(folder_name, Id115, NoPrompt, 5),
                      ReportRow(folder_name, Id114, "Describe X", 7)>>)
    ELSE IF stamp = LaterStamp
    THEN ReportFile(folder_name, stamp, <<ReportRow(folder_name, Id115, "Describe Z", 3)>>)
    ELSE ReportFile(folder_name, stamp, <<ReportRow(folder_name, Id114, "Describe X", 9)>>)

\* the disk when each folder holds the reports with the stamps chosen for it
DiskWith(fs, stamps) ==
    UNION {{OtherReport(fs[k].name, st) : st \in stamps[k]} : k \in 1..Len(fs)}

\* one SSE frame: an event line, a data line, a blank line
Frame(event, json) == <<EventLine, SP, event, NL, DataLine, SP, json, NL, NL>>

StreamFrameCatalog ==
    {Frame("batch_complete", JsonR114), Frame("batch_complete", JsonR115),
     Frame("complete", JsonEmptyObj), Frame("error", JsonMessage),
     Frame("batch_complete", JsonCorrupt), Frame("complete", JsonCorrupt),
     Frame("batch_complete", JsonArray)}

RunFrameCatalog ==
    {Frame("batch_complete", JsonR114), Frame("batch_complete", JsonR115),
     Frame("complete", JsonEmptyObj), Frame("batch_complete", JsonArray)}

\* the body `payload` as iter_content hands it over when the transport cuts it
\* after `k` tokens; iter_content yields no empty chunk
CutAt(payload, k) ==
    IF payload = <<>> THEN <<>>
    ELSE IF k = 0 \/ k >= Len(payload) THEN <<payload>>
    ELSE <<SubSeq(payload, 1, k), SubSeq(payload, k + 1, Len(payload))>>

(***************************************************************************)
(* The state machine.                                                      *)
(***************************************************************************)
NoLocals ==
    /\ i' = 0
    /\ all_results' = <<>>
    /\ batch_items' = <<>>
    /\ file_metadata' = <<>>
    /\ visited' = <<>>
    /\ sleeps' = 0

NoStream ==
    /\ incoming' = <<>>
    /\ sent' = <<>>
    /\ delivered' = <<>>
    /\ buffer' = <<>>
    /\ results' = <<>>
    /\ terminal' = FALSE

\* no call of extract_curso_from_id on its own
NoCall ==
    /\ call_id = <<>>
    /\ call_curso = ""

\* the state when main enters its loop over the folders, with the report files
\* that earlier runs left on disk
InitRun(fs, b, disk) ==
    /\ folders = fs
    /\ batch_size = b
    /\ fi = 1
    /\ pc = "folder"
    /\ written = <<>>
    /\ reports = disk
    /\ combined = NotCombined
    /\ outcomes = <<>>
    /\ i = 0
    /\ all_results = <<>>
    /\ batch_items = <<>>
    /\ file_metadata = <<>>
    /\ visited = <<>>
    /\ sleeps = 0
    /\ NoCall
    /\ jobs = <<>>
    /\ incoming = <<>>
    /\ sent = <<>>
    /\ delivered = <<>>
    /\ buffer = <<>>
    /\ results = <<>>
    /\ terminal = FALSE

\* the folders of a run have the names given in args.folders, each name once
Named(fs) == [k \in 1..Len(fs) |-> [fs[k] EXCEPT !.name = FolderNames[k]]]

\* a run over up to MaxFolders folders
Init ==
    \E fs \in SeqsUpTo(RunFolderCatalog, MaxFolders) \ {<<>>}, b \in 1..MaxBatch :
        InitRun(Named(fs), b, {})

\* a run over up to MaxFolders folders whose directories hold reports of other
\* runs
InitCombine ==
    \E fs \in SeqsUpTo({SkippedFolder, PromptlessFolder}, MaxFolders) \ {<<>>} :
        \E stamps \in [1..Len(fs) -> SUBSET OtherStamps] :
            InitRun(Named(fs), 1, DiskWith(Named(fs), stamps))

\* a run over one folder
InitFolder ==
    \E f \in FolderCatalog, b \in 1..MaxBatch : InitRun(<<f>>, b, {})

folder == folders[fi]
consignas_df == load_consignas_csv(folder.table)
nor_files == get_nor_files(folder.files)

\* the job of the current batch changes state
SetLastJob(state) == [jobs EXCEPT ![Len(jobs)].state = state]

\* an exception that ends the run instead of the folder
RunAborted ==
    /\ outcomes' = Append(outcomes, "exception")
    /\ fi' = fi
    /\ pc' = "aborted"
    /\ NoLocals
    /\ UNCHANGED <<written, reports, combined>>

\* main's `except Exception`: the folder is given up and the loop goes on
FolderRaised ==
    /\ outcomes' = Append(outcomes, "exception")
    /\ fi' = fi + 1
    /\ pc' = "folder"
    /\ NoLocals
    /\ UNCHANGED <<written, reports, combined>>

\* process_folder returns an empty DataFrame before its loop (lines 229-242),
\* and main skips the CSV (lines 480-482)
SkipFolder ==
    /\ pc = "folder"
    /\ fi <= Len(folders)
    /\ FrameEmpty(consignas_df) \/ nor_files = <<>>
    /\ outcomes' = Append(outcomes, IF FrameEmpty(consignas_df) THEN "no_prompts"
                                    ELSE "no_files")
    /\ fi' = fi + 1
    /\ pc' = "folder"
    /\ NoLocals
    /\ NoStream
    /\ UNCHANGED <<callVars, configVars, written, reports, combined, jobs>>

\* process_folder reaches its loop over the batches (line 245)
BeginFolder ==
    /\ pc = "folder"
    /\ fi <= Len(folders)
    /\ ~FrameEmpty(consignas_df)
    /\ nor_files # <<>>
    /\ pc' = "batch"
    /\ NoLocals
    /\ NoStream
    /\ UNCHANGED <<callVars, configVars, mainVars, jobs>>

\* batch_files = nor_files[i:i+batch_size]
batch_files == BatchFiles(nor_files, i, batch_size)

CurrentBatch == PrepareBatch(consignas_df, batch_files, NoBatch)

\* lines 248-302: the batch is built and has items
BuildBatch ==
    /\ pc = "batch"
    /\ i < Len(nor_files)
    /\ ~CurrentBatch.raised
    /\ CurrentBatch.items # <<>>
    /\ batch_items' = CurrentBatch.items
    /\ file_metadata' = CurrentBatch.metadata
    /\ visited' = Append(visited, batch_files)
    /\ pc' = "submit"
    /\ NoStream
    /\ UNCHANGED <<callVars, configVars, mainVars, i, all_results, sleeps, jobs>>

\* lines 297-299: no valid item, `continue`
SkipChunk ==
    /\ pc = "batch"
    /\ i < Len(nor_files)
    /\ ~CurrentBatch.raised
    /\ CurrentBatch.items = <<>>
    /\ batch_items' = <<>>
    /\ file_metadata' = <<>>
    /\ visited' = Append(visited, batch_files)
    /\ i' = i + batch_size
    /\ pc' = "batch"
    /\ NoStream
    /\ UNCHANGED <<callVars, configVars, mainVars, all_results, sleeps, jobs>>

\* the lookup of a column the table does not have raises KeyError (lines 274, 279)
BuildRaises ==
    /\ pc = "batch"
    /\ i < Len(nor_files)
    /\ CurrentBatch.raised
    /\ FolderRaised
    /\ NoStream
    /\ UNCHANGED <<callVars, configVars, jobs>>

NewJob(state) ==
    [folder |-> fi, at |-> i, items |-> batch_items, state |-> state, frames |-> 0,
     pauses |-> sleeps]

\* where evaluate_texts goes once the job is submitted: on to stream_results
NotWaitingForStream == "reconcile"
AfterSubmit == "open"

\* submit_evaluation_job returns the job information
SubmitOk ==
    /\ pc = "submit"
    /\ jobs' = Append(jobs, NewJob("in_flight"))
    /\ pc' = AfterSubmit
    /\ UNCHANGED <<callVars, configVars, mainVars, folderVars, streamVars>>

\* what submit_evaluation_job does on a RequestException: the request is not
\* sent again, and the caller gets None
RejectedAndRetried(log) == Append(Append(log, NewJob("rejected")), NewJob("rejected"))
AfterRejected(log) == Append(log, NewJob("rejected"))

\* submit_evaluation_job catches a RequestException and returns None;
\* evaluate_texts returns [] (lines 201-203)
SubmitFail ==
    /\ pc = "submit"
    /\ jobs' = AfterRejected(jobs)
    /\ pc' = "reconcile"
    /\ NoStream
    /\ UNCHANGED <<callVars, configVars, mainVars, folderVars>>

\* requests.get and raise_for_status succeed: the response is open
OpenStreamWith(frames, chunks) ==
    /\ pc = "open"
    /\ incoming' = chunks
    /\ sent' = frames
    /\ delivered' = <<>>
    /\ buffer' = <<>>
    /\ results' = <<>>
    /\ terminal' = FALSE
    /\ jobs' = [jobs EXCEPT ![Len(jobs)].frames = Len(frames)]
    /\ pc' = "stream"
    /\ UNCHANGED <<callVars, configVars, mainVars, folderVars>>

\* the number of frames the service wrote on the responses of the first n jobs
RECURSIVE FramesWritten(_)
FramesWritten(n) == IF n = 0 THEN 0 ELSE jobs[n].frames + FramesWritten(n - 1)

\* in a run the service writes up to MaxRunFrames frames in all, one chunk each
OpenStream ==
    \E frames \in SeqsUpTo(RunFrameCatalog, MaxRunFrames - FramesWritten(Len(jobs))) :
        OpenStreamWith(frames, frames)

\* requests.get or raise_for_status raises: stream_results returns its empty list
OpenFail ==
    /\ pc = "open"
    /\ jobs' = SetLastJob("open_failed")
    /\ pc' = "reconcile"
    /\ NoStream
    /\ UNCHANGED <<callVars, configVars, mainVars, folderVars>>

StreamState == [buffer |-> buffer, results |-> results, terminal |-> terminal, raised |-> FALSE]

\* one chunk is read and its frames are processed
ReadChunk ==
    /\ pc = "stream"
    /\ incoming # <<>>
    /\ LET st == OnChunk(StreamState, Head(incoming))
       IN  /\ ~st.raised
           /\ buffer' = st.buffer
           /\ results' = st.results
           /\ terminal' = st.terminal
    /\ delivered' = Append(delivered, Head(incoming))
    /\ incoming' = Tail(incoming)
    /\ UNCHANGED <<callVars, configVars, mainVars, folderVars, jobs, sent, pc>>

\* a frame whose document is no object makes .get raise AttributeError, which
\* no handler of stream_results, evaluate_texts or process_folder catches
ReadChunkRaises ==
    /\ pc = "stream"
    /\ incoming # <<>>
    /\ OnChunk(StreamState, Head(incoming)).raised
    /\ jobs' = SetLastJob("abandoned")
    /\ FolderRaised
    /\ delivered' = Append(delivered, Head(incoming))
    /\ incoming' = Tail(incoming)
    /\ UNCHANGED <<callVars, configVars, sent, buffer, results, terminal>>

\* what stream_results returns from its `except RequestException` handler
ResultsDiscarded(res) == <<>>
ResultsOnFailure(res) == res

\* the response ends: the for loop is over and stream_results returns results
StreamEnd ==
    /\ pc = "stream"
    /\ incoming = <<>>
    /\ jobs' = SetLastJob("stream_ended")
    /\ pc' = "reconcile"
    /\ UNCHANGED <<callVars, configVars, mainVars, folderVars, streamVars>>

\* reading the response raises a RequestException (timeout, connection lost):
\* stream_results returns the results it has (lines 188-190)
StreamFail ==
    /\ pc = "stream"
    /\ jobs' = SetLastJob("stream_failed")
    /\ results' = ResultsOnFailure(results)
    /\ incoming' = <<>>
    /\ pc' = "reconcile"
    /\ UNCHANGED <<callVars, configVars, mainVars, folderVars, sent, delivered, buffer, terminal>>

\* rows put in front of the rows of the earlier batches
PrependRows(acc, rows) == rows \o acc

\* all_results.append(...) for each row of the batch, in order
AppendRows(acc, rows) == acc \o rows

\* a loop without pauses
PauseNever(at, size, n) == FALSE

\* if i + batch_size < len(nor_files): time.sleep(1)
PauseDue(at, size, n) == at + size < n

\* lines 305-322: the results are matched, then the pause, then the next chunk
Reconcile ==
    /\ pc = "reconcile"
    /\ all_results' = AppendRows(all_results, MatchResults(folder.name, results, file_metadata))
    /\ sleeps' = IF PauseDue(i, batch_size, Len(nor_files)) THEN sleeps + 1 ELSE sleeps
    /\ i' = i + batch_size
    /\ pc' = "batch"
    /\ UNCHANGED <<callVars, configVars, mainVars, batch_items, file_metadata, visited, jobs,
                   streamVars>>

\* the statistics are computed on a report without rows: the 'nota' column is
\* missing and the lookup raises
FinishFolderEmptyRaises ==
    /\ pc = "batch"
    /\ i >= Len(nor_files)
    /\ all_results = <<>>
    /\ FolderRaised
    /\ NoStream
    /\ UNCHANGED <<callVars, configVars, jobs>>

\* the loop is over with no row: the statistics are skipped (line 330),
\* process_folder returns an empty DataFrame and main skips the CSV (lines 480-482)
FinishFolderEmpty ==
    /\ pc = "batch"
    /\ i >= Len(nor_files)
    /\ all_results = <<>>
    /\ outcomes' = Append(outcomes, "no_results")
    /\ fi' = fi + 1
    /\ pc' = "folder"
    /\ NoLocals
    /\ NoStream
    /\ UNCHANGED <<callVars, configVars, written, reports, combined, jobs>>

\* the file is created, or replaces the file of the same name
SaveReport(disk, report) ==
    {r \in disk : ~(r.folder = report.folder /\ r.stamp = report.stamp)} \cup {report}

\* the loop is over with rows: main writes the folder's report (lines 485-487)
FinishFolderWrite ==
    /\ pc = "batch"
    /\ i >= Len(nor_files)
    /\ all_results # <<>>
    /\ written' = Append(written, [folder |-> fi, name |-> folder.name, rows |-> all_results])
    /\ reports' = SaveReport(reports, ReportFile(folder.name, timestamp, to_csv(all_results)))
    /\ UNCHANGED combined
    /\ outcomes' = Append(outcomes, "written")
    /\ fi' = fi + 1
    /\ pc' = "folder"
    /\ NoLocals
    /\ NoStream
    /\ UNCHANGED <<callVars, configVars, jobs>>

\* main's loop over the folders is over: combine_results is called unless
\* --no-combine was given
AllFoldersDone ==
    /\ pc = "folder"
    /\ fi > Len(folders)
    /\ \E no_combine \in BOOLEAN : pc' = IF no_combine THEN "done" ELSE "combine"
    /\ UNCHANGED <<callVars, configVars, mainVars, folderVars, streamVars, jobs>>

\* args.folders
FolderNamesOf(fs) == [k \in 1..Len(fs) |-> fs[k].name]

\* combine_results(args.folders, args.data_dir, timestamp), then main ends
CombineResults ==
    /\ pc = "combine"
    /\ combined' = combine_results(reports, FolderNamesOf(folders))
    /\ pc' = "done"
    /\ UNCHANGED <<callVars, configVars, fi, written, outcomes, reports, folderVars,
                   streamVars, jobs>>

Next ==
    \/ SkipFolder
    \/ BeginFolder
    \/ BuildBatch
    \/ SkipChunk
    \/ BuildRaises
    \/ SubmitOk
    \/ SubmitFail
    \/ OpenStream
    \/ OpenFail
    \/ ReadChunk
    \/ ReadChunkRaises
    \/ StreamEnd
    \/ StreamFail
    \/ Reconcile
    \/ FinishFolderEmpty
    \/ FinishFolderWrite
    \/ AllFoldersDone
    \/ CombineResults

Spec == Init /\ [][Next]_vars

SpecFolder == InitFolder /\ [][Next]_vars

\* what a service writes that evaluates the file of PromptlessFolder
AnswerFrames == <<Frame("batch_complete", JsonR114), Frame("complete", JsonEmptyObj)>>

\* the service answers the job with AnswerFrames, which arrive in one chunk
OpenStreamAnswered == OpenStreamWith(AnswerFrames, <<Concat(AnswerFrames)>>)

\* the steps of a run in which the service answers every job
NextCombine ==
    \/ SkipFolder
    \/ BeginFolder
    \/ BuildBatch
    \/ SubmitOk
    \/ OpenStreamAnswered
    \/ ReadChunk
    \/ StreamEnd
    \/ Reconcile
    \/ FinishFolderWrite
    \/ AllFoldersDone
    \/ CombineResults

SpecCombine == InitCombine /\ [][NextCombine]_vars

(***************************************************************************)
(* One run of main with the default batch size over the folder POS1, which *)
(* holds two normalized files and a prompt table with a row for the first  *)
(* of them; the service accepts the job and answers with one batch_complete*)
(* frame that has a result for each file, then a complete frame.  The      *)
(* directory lists the files in any order and the transport cuts the       *)
(* response at any two places.                                             *)
(***************************************************************************)
DEFAULT_BATCH_SIZE == 10

Pos1Prefix == <<"P", "O", "S", "1">>

Pos1Files ==
    << File(FileName(Pos1Prefix, Id11410001), <<"Hello">>, TRUE),
       File(FileName(Pos1Prefix, Id11510002), <<"World">>, TRUE) >>

Pos1Table == Table({"File ID", "ID", "Consigna"}, <<PromptRow(Id11410001, "Describe X")>>)

Pos1Frames == <<Frame("batch_complete", JsonRBoth), Frame("complete", JsonEmptyObj)>>

\* the body `payload` cut after a tokens and again after b tokens
CutTwice(payload, a, b) ==
    CutAt(SubSeq(payload, 1, a), 0) \o CutAt(SubSeq(payload, a + 1, Len(payload)), b - a)

InitPos1 ==
    \E files \in {Pos1Files, Reverse(Pos1Files)} :
        InitRun(<<Folder("POS1", Pos1Table, files)>>, DEFAULT_BATCH_SIZE, {})

OpenStreamPos1 ==
    \E b \in 0..Len(Concat(Pos1Frames)) :
        \E a \in 0..b :
            OpenStreamWith(Pos1Frames, CutTwice(Concat(Pos1Frames), a, b))

NextPos1 ==
    \/ BeginFolder
    \/ BuildBatch
    \/ SubmitOk
    \/ OpenStreamPos1
    \/ ReadChunk
    \/ StreamEnd
    \/ Reconcile
    \/ FinishFolderWrite
    \/ AllFoldersDone
    \/ CombineResults

SpecPos1 == InitPos1 /\ [][NextPos1]_vars

(***************************************************************************)
(* One run over a folder that holds A_114_NOR.txt and one more text file,  *)
(* whose name is any text of up to MaxStemLen characters followed by       *)
(* "_NOR.txt" or by ".txt"; the service answers every job.                 *)
(***************************************************************************)
StemAlphabet == {"A", "_", "1", "4"}

TxtSuffix == <<".", "t", "x", "t">>

NamedFiles ==
    {File(stem \o tail, <<"World">>, TRUE) :
        stem \in SeqsUpTo(StemAlphabet, MaxStemLen), tail \in {NorSuffix, TxtSuffix}}

InitNames ==
    \E file \in NamedFiles, b \in 1..MaxBatch :
        \E files \in {<<FileCatalog[1], file>>, <<file, FileCatalog[1]>>} :
            InitRun(<<Folder("POS1", GoodTable, files)>>, b, {})

NextNames ==
    \/ BeginFolder
    \/ BuildBatch
    \/ SkipChunk
    \/ SubmitOk
    \/ OpenStreamAnswered
    \/ ReadChunk
    \/ StreamEnd
    \/ Reconcile
    \/ FinishFolderWrite
    \/ AllFoldersDone
    \/ CombineResults

SpecNames == InitNames /\ [][NextNames]_vars

(***************************************************************************)
(* One run over a folder with up to three files, two of which have the     *)
(* same identifier, in which the service repeats itself: a frame may hold  *)
(* two results for one id_alumno, and frames may come twice.               *)
(***************************************************************************)
RepeatFiles == <<FileCatalog[1], FileCatalog[2], FileCatalog[4]>>

RepeatListings ==
    {<<RepeatFiles[1]>>, <<RepeatFiles[2], RepeatFiles[1]>>,
     <<RepeatFiles[3], RepeatFiles[1]>>, <<RepeatFiles[3], RepeatFiles[2], RepeatFiles[1]>>}

RepeatFrameCatalog ==
    {Frame("batch_complete", JsonR114x2), Frame("batch_complete", JsonR114),
     Frame("batch_complete", JsonR115), Frame("complete", JsonEmptyObj)}

InitRepeat ==
    \E files \in RepeatListings, t \in {GoodTable, PostTable}, b \in 1..MaxBatch :
        InitRun(<<Folder("POS1", t, files)>>, b, {})

OpenStreamRepeat ==
    \E frames \in SeqsUpTo(RepeatFrameCatalog, MaxRunFrames - FramesWritten(Len(jobs))) :
        OpenStreamWith(frames, frames)

NextRepeat ==
    \/ BeginFolder
    \/ BuildBatch
    \/ SubmitOk
    \/ OpenStreamRepeat
    \/ ReadChunk
    \/ StreamEnd
    \/ Reconcile
    \/ FinishFolderEmpty
    \/ FinishFolderWrite
    \/ AllFoldersDone
    \/ CombineResults

SpecRepeat == InitRepeat /\ [][NextRepeat]_vars

(***************************************************************************)
(* stream_results on its own: one response, any body of up to MaxFrames    *)
(* frames, cut into chunks at any place.                                   *)
(***************************************************************************)
StreamFolder == Folder("POS1", GoodTable, <<FileCatalog[1], FileCatalog[2]>>)

StreamBatch == PrepareBatch(load_consignas_csv(GoodTable), StreamFolder.files, NoBatch)

InitStream ==
    \E frames \in SeqsUpTo(StreamFrameCatalog, MaxFrames) :
        \E k \in 0..Len(Concat(frames)) :
            /\ folders = <<StreamFolder>>
            /\ batch_size = 2
            /\ fi = 1
            /\ pc = "stream"
            /\ written = <<>>
            /\ reports = {}
            /\ combined = NotCombined
            /\ outcomes = <<>>
            /\ i = 0
            /\ all_results = <<>>
            /\ batch_items = StreamBatch.items
            /\ file_metadata = StreamBatch.metadata
            /\ visited = <<StreamFolder.files>>
            /\ sleeps = 0
            /\ NoCall
            /\ jobs = <<[folder |-> 1, at |-> 0, items |-> StreamBatch.items,
                         state |-> "in_flight", frames |-> Len(frames), pauses |-> 0]>>
            /\ incoming = CutAt(Concat(frames), k)
            /\ sent = frames
            /\ delivered = <<>>
            /\ buffer = <<>>
            /\ results = <<>>
            /\ terminal = FALSE

NextStream ==
    \/ ReadChunk
    \/ ReadChunkRaises
    \/ StreamEnd
    \/ StreamFail

SpecStream == InitStream /\ [][NextStream]_vars

(***************************************************************************)
(* extract_curso_from_id on its own: one call, on any text of up to        *)
(* MaxIdLen characters that are digits or a letter.                        *)
(***************************************************************************)
IdAlphabet == Digits \cup {"x"}

InitCurso ==
    \E id \in SeqsUpTo(IdAlphabet, MaxIdLen) :
        /\ folders = <<>>
        /\ batch_size = 1
        /\ fi = 1
        /\ pc = "call"
        /\ written = <<>>
        /\ reports = {}
        /\ combined = NotCombined
        /\ outcomes = <<>>
        /\ i = 0
        /\ all_results = <<>>
        /\ batch_items = <<>>
        /\ file_metadata = <<>>
        /\ visited = <<>>
        /\ sleeps = 0
        /\ jobs = <<>>
        /\ incoming = <<>>
        /\ sent = <<>>
        /\ delivered = <<>>
        /\ buffer = <<>>
        /\ results = <<>>
        /\ terminal = FALSE
        /\ call_id = id
        /\ call_curso = ""

\* the call returns
CallExtractCurso ==
    /\ pc = "call"
    /\ call_curso' = extract_curso_from_id(call_id)
    /\ pc' = "return"
    /\ UNCHANGED <<call_id, configVars, mainVars, folderVars, streamVars, jobs>>

NextCurso == CallExtractCurso

SpecCurso == InitCurso /\ [][NextCurso]_vars

(***************************************************************************)
(* Properties of stream_results (checked under SpecStream).                *)
(***************************************************************************)
LastJobState == IF jobs = <<>> THEN "none" ELSE jobs[Len(jobs)].state

\* stream_results has returned because the response ended
StreamReturned == pc = "reconcile" /\ LastJobState = "stream_ended"

\* C1: once a `complete` or `error` frame has been consumed on a response, no
\* later frame of that response is processed: no step taken while the response
\* is still being read adds an entry to results.
C1_NoResultsAfterTerminal ==
    [][(pc = "stream" /\ terminal) => results' = results]_vars

\* C2: when a `complete` or `error` frame has been consumed, stream consumption
\* ends: no further chunk is read from the response.
C2_NoChunkReadAfterTerminal ==
    [][(pc = "stream" /\ terminal) => delivered' = delivered]_vars

\* the offsets of the frame boundaries in the body the server wrote
FrameBoundaries == {Len(Concat(SubSeq(sent, 1, j))) : j \in 0..Len(sent)}

\* the body came in two chunks and the cut lies inside a frame
SplitInsideFrame == Len(delivered) = 2 /\ Len(delivered[1]) \notin FrameBoundaries

\* C3: frame parsing is chunk-boundary-independent: a body split into two chunks
\* at an offset inside a frame yields the results that the same body yields when
\* it is delivered as one chunk.
C3_ChunkBoundaryIndependent ==
    (StreamReturned /\ SplitInsideFrame)
        => results = StreamResultsOf(<<Concat(delivered)>>).results

\* the data line of the frame fails to decode
IsCorruptFrame(frame) ==
    \E k \in 1..Len(SplitLines(Strip(frame))) :
        LET line == SplitLines(Strip(frame))[k]
        IN  /\ line # <<>>
            /\ Head(line) = DataLine
            /\ ~JsonLoads(Strip(Tail(line))).ok

\* the body the server wrote, without its corrupt frames
BodyWithoutCorrupt == Concat(SelectSeq(sent, LAMBDA f : ~IsCorruptFrame(f)))

\* C9: a frame whose data payload fails to decode has no effect on the stream:
\* a body delivered whole yields the results of the same body without its
\* corrupt frames, whatever their event types.
C9_CorruptFrameHasNoEffect ==
    (StreamReturned /\ Len(delivered) = 1 /\ delivered[1] = Concat(sent))
        => results = StreamResultsOf(CutAt(BodyWithoutCorrupt, 0)).results

(***************************************************************************)
(* Properties of process_folder and evaluate_texts (checked under          *)
(* SpecFolder).                                                            *)
(***************************************************************************)
ItemIds(items) == {items[k].id_alumno : k \in 1..Len(items)}

LastJob == jobs[Len(jobs)]

\* the step before was the matching of the results of the last job
JustReconciled ==
    /\ pc = "batch"
    /\ jobs # <<>>
    /\ LastJob.folder = fi
    /\ LastJob.at + batch_size = i

\* the results whose id_alumno is the id of an item of the batch of the last job
MatchedResults == SelectSeq(results, LAMBDA r : r.id_alumno \in ItemIds(LastJob.items))

\* C4: result rows are closed over batch membership: every row that the matching
\* step appends has the id of an item of the batch submitted for the job, one row
\* per result with such an id, and results with any other id leave no row.
C4_RowsWithinBatch ==
    [][pc = "reconcile" =>
          /\ Len(all_results') = Len(all_results) + Len(MatchedResults)
          /\ SubSeq(all_results', 1, Len(all_results)) = all_results
          /\ \A k \in (Len(all_results) + 1)..Len(all_results') :
                all_results'[k].id \in ItemIds(LastJob.items)]_vars

\* a result of the last job was discarded although its id was in an earlier
\* batch of the folder, and the folder has rows
C4_Witness ==
    /\ JustReconciled
    /\ all_results # <<>>
    /\ \E k \in 1..Len(results), j \in 1..(Len(jobs) - 1) :
          /\ results[k].id_alumno \notin ItemIds(LastJob.items)
          /\ jobs[j].folder = fi
          /\ results[k].id_alumno \in ItemIds(jobs[j].items)

ValidFile(file) == extract_id_from_filename(file.name) # <<>> /\ read_text_file(file) # <<>>

\* no row of the table has the identifier
NoRowFor(table, id) == \A k \in 1..Len(table.rows) : IdCellAsStr(table.rows[k].ID) # id

\* the start offset of the chunk of the k-th file
ChunkStart(k) == ((k - 1) \div batch_size) * batch_size

\* the normalized files of folder f, as process_folder scans them
ScanOf(f) == get_nor_files(folders[f].files)

\* the k-th file of folder f went out in the batch of its chunk with prompt "N/A"
SubmittedWithoutPrompt(f, k) ==
    LET file == ScanOf(f)[k]
    IN  \E j \in 1..Len(jobs) :
            /\ jobs[j].folder = f
            /\ jobs[j].at = ChunkStart(k)
            /\ \E m \in 1..Len(jobs[j].items) :
                  /\ jobs[j].items[m].id_alumno = extract_id_from_filename(file.name)
                  /\ jobs[j].items[m].respuesta = read_text_file(file)
                  /\ jobs[j].items[m].consigna = "N/A"

\* the valid files of folder f whose identifier has no row in the table
FilesWithoutPrompt(f) ==
    LET scan == ScanOf(f)
    IN  {k \in 1..Len(scan) :
            /\ ValidFile(scan[k])
            /\ NoRowFor(folders[f].table, extract_id_from_filename(scan[k].name))}

\* C5: whenever the prompt table file exists, every valid file whose identifier
\* has no row in it (whatever rows the table has) is submitted in the batch of
\* its chunk with consigna "N/A".
C5_MissingPromptKeepsItem ==
    \A f \in 1..Len(outcomes) :
        folders[f].table.exists
            => \A k \in FilesWithoutPrompt(f) : SubmittedWithoutPrompt(f, k)

InFlight == {k \in 1..Len(jobs) : jobs[k].state = "in_flight"}

\* C6: batches are processed strictly sequentially: a batch is submitted only
\* when no job is in flight, the only job ever in flight is the last one
\* submitted, while evaluate_texts opens or reads its stream, and the batches of
\* a folder are submitted in the order of their chunks.
C6_OneJobAtATime ==
    /\ Cardinality(InFlight) <= 1
    /\ pc = "submit" => InFlight = {}
    /\ InFlight # {} => (InFlight = {Len(jobs)} /\ pc \in {"open", "stream"})
    /\ \A j, k \in 1..Len(jobs) :
          (j < k /\ jobs[j].folder = jobs[k].folder) => jobs[j].at < jobs[k].at

\* the second job of a folder is being streamed after the stream of the first ended
C6_Witness ==
    /\ Len(jobs) = 2
    /\ jobs[1].folder = jobs[2].folder
    /\ jobs[1].state = "stream_ended"
    /\ jobs[2].state = "in_flight"
    /\ pc = "stream"
    /\ delivered # <<>>

\* the chunk of the current folder that starts at offset `at` has a valid file
ChunkHasValidFile(at) ==
    \E k \in 1..Len(nor_files) : ChunkStart(k) = at /\ ValidFile(nor_files[k])

\* C7: when the submission of a batch fails, no job comes back, the request is
\* in the log once, no stream is opened, the matching step that follows adds no
\* row and moves on to the next chunk leaving the earlier rows as they were, and
\* a folder whose loop ends has one request for every chunk with a valid file.
C7_FailedSubmissionSkipsBatch ==
    [][/\ (pc = "submit" /\ pc' = "reconcile") =>
              /\ Len(jobs') = Len(jobs) + 1
              /\ SubSeq(jobs', 1, Len(jobs)) = jobs
              /\ jobs'[Len(jobs')].state = "rejected"
              /\ all_results' = all_results
              /\ results' = <<>>
              /\ delivered' = <<>>
              /\ incoming' = <<>>
       /\ (pc = "reconcile" /\ LastJobState = "rejected") =>
              /\ all_results' = all_results
              /\ jobs' = jobs
              /\ i' = i + batch_size
              /\ fi' = fi
              /\ pc' = "batch"
       /\ \A j, k \in 1..Len(jobs') :
              (jobs'[j].folder = jobs'[k].folder /\ jobs'[j].at = jobs'[k].at) => j = k
       /\ (pc = "batch" /\ outcomes' # outcomes /\ outcomes'[Len(outcomes')] # "exception") =>
              \A at \in 0..(Len(nor_files) - 1) :
                  ChunkHasValidFile(at) =>
                      \E j \in 1..Len(jobs') : jobs'[j].folder = fi /\ jobs'[j].at = at
      ]_vars

\* the first batch of a folder was rejected, and the next batch was submitted,
\* streamed and matched into rows
C7_Witness ==
    /\ JustReconciled
    /\ Len(jobs) = 2
    /\ jobs[1].folder = jobs[2].folder
    /\ jobs[1].state = "rejected"
    /\ jobs[2].state = "stream_ended"
    /\ all_results # <<>>

RowKeys(rows) == [k \in 1..Len(rows) |-> <<rows[k].id, rows[k].nota, rows[k].feedback>>]

ResultKeys(res) == [k \in 1..Len(res) |-> <<res[k].id_alumno, res[k].nota, res[k].feedback>>]

\* C8: when reading the response fails, stream_results returns exactly the
\* results of the frames processed so far, and the matching step turns them into
\* rows as it does with the results of a stream that ended.
C8_PartialResultsKept ==
    /\ (pc = "reconcile" /\ LastJobState = "stream_failed")
          => results = StreamResultsOf(delivered).results
    /\ (JustReconciled /\ LastJobState \in {"stream_failed", "stream_ended"})
          => /\ Len(all_results) >= Len(MatchedResults)
             /\ RowKeys(SubSeq(all_results, Len(all_results) - Len(MatchedResults) + 1,
                               Len(all_results)))
                    = ResultKeys(MatchedResults)

\* a stream failed after a batch_complete frame, and its results became rows
C8_Witness ==
    /\ JustReconciled
    /\ LastJobState = "stream_failed"
    /\ delivered # <<>>
    /\ MatchedResults # <<>>
    /\ all_results # <<>>

(***************************************************************************)
(* Properties of main's loop over the folders (checked under Spec).        *)
(***************************************************************************)
FolderFailures == {"no_prompts", "no_files", "exception"}

JobsOf(log, f) == SelectSeq(log, LAMBDA j : j.folder = f)

\* C10: a folder-level failure does not terminate the run: a folder whose table
\* is missing or empty or that has no files is skipped without any submission,
\* a folder that failed (skipped or ended by an exception) gets no report and no
\* later submission, and the run goes on with the next folder, in order, until
\* every folder has been processed.
C10_FolderFailureContinues ==
    [][/\ outcomes' # outcomes =>
              /\ Len(outcomes') = Len(outcomes) + 1
              /\ SubSeq(outcomes', 1, Len(outcomes)) = outcomes
              /\ fi' = fi + 1
              /\ pc' = "folder"
       /\ Len(outcomes') = fi' - 1
       /\ pc' = "combine" => Len(outcomes') = Len(folders)
       /\ \A f \in 1..Len(outcomes') :
              outcomes'[f] \in FolderFailures =>
                  \A w \in 1..Len(written') : written'[w].folder # f
       /\ \A f \in 1..Len(outcomes) :
              outcomes[f] \in FolderFailures => JobsOf(jobs', f) = JobsOf(jobs, f)
       /\ \A f \in 1..Len(outcomes') :
              (FrameEmpty(load_consignas_csv(folders[f].table))
                   \/ get_nor_files(folders[f].files) = <<>>)
                  => /\ outcomes'[f] \in {"no_prompts", "no_files"}
                     /\ JobsOf(jobs', f) = <<>>
      ]_vars

\* the first folder was ended by an exception after a submission, and the
\* second folder was processed and its report written
C10_Witness ==
    /\ pc = "combine"
    /\ Len(folders) = 2
    /\ outcomes = <<"exception", "written">>
    /\ JobsOf(jobs, 1) # <<>>
    /\ Len(written) = 1
    /\ written[1].folder = 2

(***************************************************************************)
(* Properties of the scan and of the partition into batches (checked under *)
(* SpecFolder).                                                            *)
(***************************************************************************)
Ceil(n, b) == (n + b - 1) \div b

InFolderLoop == pc \in {"batch", "submit", "open", "stream", "reconcile"}

\* the entries of the directory of the current folder that are normalized files
NormalizedEntries ==
    {folder.files[k] : k \in {j \in 1..Len(folder.files) : EndsWith(folder.files[j].name, NorSuffix)}}

\* the size the k-th of the chunks of n files has
ChunkSize(k, n) == IF k * batch_size <= n THEN batch_size ELSE n - (k - 1) * batch_size

\* C11: batch partitioning is order-preserving and lossless: the scan is the
\* normalized files of the directory, each once, sorted by name; the chunks the
\* loop of process_folder has gone through are consecutive pieces of the scan,
\* each of batch_size files except possibly the last; and when the loop ends
\* there are ceil(N / batch_size) of them and their concatenation is the scan.
C11_PartitionLossless ==
    InFolderLoop =>
        LET scan == nor_files
            n    == Len(scan)
            done == Concat(visited)
        IN  /\ {scan[k] : k \in 1..n} = NormalizedEntries
            /\ n = Cardinality(NormalizedEntries)
            /\ \A k \in 1..(n - 1) : NameLess(scan[k].name, scan[k + 1].name)
            /\ Len(visited) <= Ceil(n, batch_size)
            /\ \A k \in 1..Len(visited) : Len(visited[k]) = ChunkSize(k, n)
            /\ done = SubSeq(scan, 1, Len(done))
            /\ (pc = "batch" /\ i >= n) =>
                   /\ Len(visited) = Ceil(n, batch_size)
                   /\ done = scan

\* the loop over a directory listed out of order ended after two chunks or more,
\* the last one shorter than batch_size
C11_Witness ==
    /\ pc = "batch"
    /\ i >= Len(nor_files)
    /\ folder.files # nor_files
    /\ Len(visited) >= 2
    /\ Len(visited[Len(visited)]) < batch_size
    /\ Len(visited[1]) = batch_size

(***************************************************************************)
(* Properties of extract_curso_from_id (checked under SpecCurso).          *)
(***************************************************************************)
SixLabels == <<"1r ESO", "2n ESO", "3r ESO", "4t ESO", "5è ESO", "6è ESO">>

\* the character at index 2 of the argument is one of the digits 1 to 6
ThirdInTable == Len(call_id) >= 3 /\ call_id[3] \in {"1", "2", "3", "4", "5", "6"}

\* C12: the value returned is the label of the digit at index 2 when it is one
\* of 1 to 6 and "4t ESO" in every other case (a digit 0, 7, 8 or 9, a character
\* that is no digit, an identifier of fewer than 3 characters), so it is always
\* one of the six labels.
C12_CursoTotal ==
    pc = "return" =>
        /\ ThirdInTable => call_curso = SixLabels[DigitValue(call_id[3])]
        /\ ~ThirdInTable => call_curso = "4t ESO"
        /\ \E k \in 1..Len(SixLabels) : call_curso = SixLabels[k]

(***************************************************************************)
(* Properties of the per-folder report (checked under SpecFolder).         *)
(***************************************************************************)
\* the report file named after the current folder and this run
ReportOfRun(disk) == {r \in disk : r.folder = folder.name /\ r.stamp = timestamp}

RowsAsWritten(rows) ==
    [k \in 1..Len(rows) |->
        <<rows[k].folder, rows[k].id, rows[k].filename, rows[k].curso, rows[k].consigna,
          rows[k].nota, rows[k].feedback>>]

\* C13: the report of a folder is persisted at most once in a run, only when
\* the loop over the batches of the folder is over, and it holds exactly the
\* accumulated rows: each matching step appends the rows of its batch after the
\* rows of the earlier batches, in the arrival order of the results, and nothing
\* else changes the accumulated rows before they are written.
C13_ReportWrittenOnceInOrder ==
    [][/\ written' # written =>
              /\ pc = "batch" /\ i >= Len(nor_files)
              /\ \A w \in 1..Len(written) : written[w].folder # fi
              /\ written' = Append(written, [folder |-> fi, name |-> folder.name,
                                              rows |-> all_results])
              /\ \E r \in ReportOfRun(reports') :
                    RowsAsWritten(r.rows) = RowsAsWritten(all_results)
       /\ reports' # reports => written' # written
       /\ pc = "reconcile" =>
              /\ SubSeq(all_results', 1, Len(all_results)) = all_results
              /\ RowKeys(SubSeq(all_results', Len(all_results) + 1, Len(all_results')))
                     = ResultKeys(MatchedResults)
       /\ (pc # "reconcile" /\ all_results' # all_results) =>
              (all_results' = <<>> /\ fi' = fi + 1)
      ]_vars

\* the report of a folder was written with a row of its first batch followed by
\* a row of its second batch
C13_Witness ==
    /\ pc = "folder"
    /\ Len(written) = 1
    /\ Len(jobs) = 2
    /\ Len(written[1].rows) = 2
    /\ written[1].rows[1].filename = FileCatalog[1].name
    /\ written[1].rows[2].filename = FileCatalog[2].name
    /\ \E r \in reports : Len(r.rows) = 2

(***************************************************************************)
(* Properties of a folder without rows (checked under Spec).               *)
(***************************************************************************)
ReportsOf(disk, f) == {r \in disk : r.folder = folders[f].name}

\* C14: a folder whose loop ends with zero rows never causes a failure:
\* process_folder returns, the folder is recorded as having no results and not
\* as ended by an exception, no report is written for it, on disk or otherwise,
\* and main goes on with the next folder.
C14_EmptyFolderNoFailure ==
    [][/\ (pc = "batch" /\ i >= Len(nor_files) /\ all_results = <<>>) =>
              /\ outcomes' = Append(outcomes, "no_results")
              /\ written' = written
              /\ reports' = reports
              /\ fi' = fi + 1
              /\ pc' = "folder"
       /\ \A f \in 1..Len(outcomes') :
              outcomes'[f] = "no_results" =>
                  /\ \A w \in 1..Len(written') : written'[w].folder # f
                  /\ ReportsOf(reports', f) = {}
       /\ pc' \in {"combine", "done"} => Len(outcomes') = Len(folders)
      ]_vars

\* the first folder ended without rows although a job was streamed for it (its
\* results matched no item), and the report of the second folder was written
C14_Witness ==
    /\ pc = "combine"
    /\ outcomes = <<"no_results", "written">>
    /\ JobsOf(jobs, 1) # <<>>
    /\ jobs[1].state = "stream_ended"
    /\ jobs[1].frames >= 1
    /\ ReportsOf(reports, 1) = {}
    /\ ReportsOf(reports, 2) # {}

(***************************************************************************)
(* Properties of combine_results (checked under SpecCombine).              *)
(***************************************************************************)
\* combine_results has run
Combined == pc = "done" /\ combined.state # "none"

\* the folders whose directory holds a report, in the order of args.folders
FoldersWithReports ==
    SelectSeq([k \in 1..Len(folders) |-> k], LAMBDA f : ReportsOf(reports, f) # {})

\* the k-th file loaded is the report of the k-th folder that has one, and its
\* name is the greatest of the names of the reports of that folder
LoadsGreatestOfEach ==
    /\ Len(combined.loaded) = Len(FoldersWithReports)
    /\ \A k \in 1..Len(FoldersWithReports) :
          LET mine == ReportsOf(reports, FoldersWithReports[k])
          IN  /\ combined.loaded[k] \in mine
              /\ \A q \in mine \ {combined.loaded[k]} :
                    NameLess(ReportName(q), ReportName(combined.loaded[k]))

\* C15: for each folder with persisted reports combine_results loads exactly
\* one, the one whose name is the greatest, and the combined report is the
\* concatenation of the rows of the files loaded, in the order of args.folders,
\* the rows of each file together and in the order they have in the file.
C15_CombinedIsConcatOfLatest ==
    Combined =>
        /\ LoadsGreatestOfEach
        /\ combined.rows
               = Concat([k \in 1..Len(combined.loaded) |-> combined.loaded[k].rows])

\* the folders the files loaded belong to, and the folders the combined rows name
LoadedFolders == {combined.loaded[k].folder : k \in 1..Len(combined.loaded)}
CombinedFolders == {combined.rows[k].folder : k \in 1..Len(combined.rows)}

\* the folders without report are left out of the combination, the others are in
OmitsFoldersWithoutReport ==
    Combined =>
        /\ \A f \in 1..Len(folders) :
              IF ReportsOf(reports, f) = {}
              THEN folders[f].name \notin LoadedFolders \cup CombinedFolders
              ELSE folders[f].name \in LoadedFolders \cap CombinedFolders
        /\ combined.state = "nothing" <=> reports = {}
        /\ combined.state = "nothing" => combined.rows = <<>>

\* C16: a folder with no persisted report is omitted without failing:
\* combine_results, once called, completes and the run is done; it loads no
\* file and contributes no row for such a folder, and still loads the report of
\* every folder that has one; when no folder has a report, no combined report
\* is written and the run is done all the same.
C16_MissingReportOmitted ==
    [][/\ pc = "combine" => (pc' = "done" /\ combined'.state \in {"nothing", "written"})
       /\ OmitsFoldersWithoutReport'
      ]_vars

\* the first folder has no report, the second has one, and they were combined
C16_Witness ==
    /\ Combined
    /\ Len(folders) = 2
    /\ ReportsOf(reports, 1) = {}
    /\ ReportsOf(reports, 2) # {}
    /\ combined.state = "written"
    /\ CombinedFolders = {folders[2].name}

\* how many times a row occurs in a report, and equality of row multisets
Occurrences(rows, row) == Cardinality({k \in 1..Len(rows) : rows[k] = row})

SameRowMultiset(a, b) ==
    \A row \in {a[k] : k \in 1..Len(a)} \cup {b[k] : k \in 1..Len(b)} :
        Occurrences(a, row) = Occurrences(b, row)

\* combined_output = f"results_all_folders_{timestamp}.csv": the combined
\* report as the file that was written
CombinedOutput == ReportFile("all_folders", timestamp, combined.rows)

\* the combined report combined with itself: combine_results over a directory
\* all_folders that holds the file, named twice in the list of folders
Recombined ==
    combine_results({CombinedOutput}, <<CombinedOutput.folder, CombinedOutput.folder>>)

\* C17: combination idempotence: combining the combined report with itself
\* writes a report with the same multiset of rows as the first combination: no
\* row is duplicated and none is lost.
C17_CombineIdempotent ==
    (Combined /\ combined.state = "written") =>
        /\ Recombined.state = "written"
        /\ SameRowMultiset(Recombined.rows, combined.rows)

(***************************************************************************)
(* The run over POS1 (checked under SpecPos1).                             *)
(***************************************************************************)
\* the folder POS1 has been dealt with
Pos1Processed == pc \in {"combine", "done"} \/ (pc = "folder" /\ fi > 1)

\* C18: in the run over POS1 with files POS1_11410001_NOR.txt and
\* POS1_11510002_NOR.txt, a prompt only for 11410001, batch size 10, an accepted
\* submission and a stream of one batch_complete frame with both results and a
\* complete frame: no submission and no stream ever fails, never more than one
\* batch is submitted, and when the folder is done exactly one batch of two
\* items was submitted, the second item with prompt "N/A", and exactly two rows
\* were produced, tagged POS1, the first labelled 4th grade and the second 5th.
C18_Pos1Scenario ==
    /\ Len(jobs) <= 1
    /\ \A j \in 1..Len(jobs) : jobs[j].state \in {"in_flight", "stream_ended"}
    /\ pc # "aborted"
    /\ "exception" \notin {outcomes[k] : k \in 1..Len(outcomes)}
    /\ Pos1Processed =>
          /\ Len(jobs) = 1
          /\ jobs[1].state = "stream_ended"
          /\ Len(jobs[1].items) = 2
          /\ jobs[1].items[1].id_alumno = Id11410001
          /\ jobs[1].items[1].consigna = "Describe X"
          /\ jobs[1].items[2].id_alumno = Id11510002
          /\ jobs[1].items[2].consigna = "N/A"
          /\ outcomes = <<"written">>
          /\ Len(written) = 1
          /\ Len(written[1].rows) = 2
          /\ \A k \in 1..2 : written[1].rows[k].folder = "POS1"
          /\ written[1].rows[1].id = Id11410001
          /\ written[1].rows[1].curso = "4t ESO"
          /\ written[1].rows[2].id = Id11510002
          /\ written[1].rows[2].curso = "5è ESO"

\* the run is over; the directory listed the files in reverse order and the
\* service wrote its two frames
C18_Witness ==
    /\ pc = "done"
    /\ folders[1].files = Reverse(Pos1Files)
    /\ Len(jobs) = 1
    /\ jobs[1].frames = 2
    /\ Len(written) = 1
    /\ Len(written[1].rows) = 2
    /\ combined.state = "written"

(***************************************************************************)
(* Identifiers and exclusion (checked under SpecNames).                    *)
(***************************************************************************)
\* the digits a text ends with
RECURSIVE TrailingDigits(_)
TrailingDigits(s) ==
    IF s = <<>> \/ s[Len(s)] \notin Digits THEN <<>>
    ELSE Append(TrailingDigits(SubSeq(s, 1, Len(s) - 1)), s[Len(s)])

\* for a name <prefix>_<digits>_NOR.txt the group of digits, <<>> for any other
DigitGroup(name) ==
    IF ~EndsWith(name, NorSuffix) THEN <<>>
    ELSE LET stem == SubSeq(name, 1, Len(name) - Len(NorSuffix))
             d    == TrailingDigits(stem)
         IN  IF d # <<>> /\ Len(stem) > Len(d) /\ stem[Len(stem) - Len(d)] = "_"
             THEN d ELSE <<>>

\* the files of a chunk whose name has a group of digits
WithDigitGroup(files) == SelectSeq(files, LAMBDA f : DigitGroup(f.name) # <<>>)

\* the rows accumulated and the rows written
RowsSoFar ==
    {all_results[k] : k \in 1..Len(all_results)}
    \cup UNION {{written[w].rows[k] : k \in 1..Len(written[w].rows)} : w \in 1..Len(written)}

\* C19: for every file of the directory extract_id_from_filename gives the
\* group of digits just before "_NOR.txt" when the name is
\* <prefix>_<digits>_NOR.txt and no identifier otherwise; the batch built
\* from a chunk has one item and one metadata entry for each file of the chunk
\* whose name has such a group, with that group as identifier, and none for the
\* other files; no row ever carries the name of a file without such a group.
C19_IdIsDigitGroup ==
    /\ \A k \in 1..Len(folders[1].files) :
          extract_id_from_filename(folders[1].files[k].name)
              = DigitGroup(folders[1].files[k].name)
    /\ pc = "submit" =>
          LET kept == WithDigitGroup(batch_files)
          IN  /\ Len(file_metadata) = Len(kept)
              /\ Len(batch_items) = Len(kept)
              /\ \A k \in 1..Len(kept) :
                    /\ file_metadata[k].filename = kept[k].name
                    /\ file_metadata[k].id = DigitGroup(kept[k].name)
                    /\ batch_items[k].id_alumno = DigitGroup(kept[k].name)
                    /\ batch_items[k].respuesta = Strip(kept[k].content)
    /\ \A j \in 1..Len(jobs) :
          \A k \in 1..Len(jobs[j].items) :
              \E f \in 1..Len(folders[1].files) :
                  /\ DigitGroup(folders[1].files[f].name) = jobs[j].items[k].id_alumno
                  /\ Strip(folders[1].files[f].content) = jobs[j].items[k].respuesta
    /\ \A row \in RowsSoFar :
          /\ DigitGroup(row.filename) # <<>>
          /\ row.id = DigitGroup(row.filename)

\* a batch was built from a chunk of two normalized files: one is excluded for
\* its name, which has digits but no group of the form, the other is kept
C19_Witness ==
    /\ pc = "submit"
    /\ Len(batch_files) = 2
    /\ Len(batch_items) = 1
    /\ \E k \in 1..2 :
          /\ DigitGroup(batch_files[k].name) = <<>>
          /\ \E c \in 1..Len(batch_files[k].name) : batch_files[k].name[c] \in Digits

(***************************************************************************)
(* The pause between submissions (checked under SpecFolder).               *)
(***************************************************************************)
\* the chunk being processed is the last one of the folder
AtLastChunk == i \div batch_size + 1 = Ceil(Len(nor_files), batch_size)

\* C20: between two consecutive submissions of a folder the pause has been
\* executed at least once, whatever became of the earlier submission and
\* however many chunks were skipped in between; a pause is executed only at
\* the end of the processing of a submitted chunk that is not the last, so no
\* pause follows the last chunk of the folder, submitted or skipped.
C20_PauseBetweenSubmissions ==
    [][/\ \A j \in 1..(Len(jobs') - 1) :
              jobs'[j].folder = jobs'[j + 1].folder => jobs'[j + 1].pauses > jobs'[j].pauses
       /\ sleeps' > sleeps =>
              /\ pc = "reconcile"
              /\ sleeps' = sleeps + 1
              /\ ~AtLastChunk
       /\ (InFolderLoop /\ AtLastChunk /\ i' > i) => sleeps' = sleeps
      ]_vars

\* three chunks of one file: the first submission was rejected, the second
\* chunk was skipped, the third was submitted after one pause, and the loop
\* ended without another pause
C20_Witness ==
    /\ pc = "batch"
    /\ batch_size = 1
    /\ Len(nor_files) = 3
    /\ i = 3
    /\ Len(visited) = 3
    /\ Len(jobs) = 2
    /\ jobs[1].state = "rejected"
    /\ jobs[1].at = 0
    /\ jobs[2].at = 2
    /\ jobs[2].pauses = 1
    /\ sleeps = 1

(***************************************************************************)
(* Files without content (checked under SpecFolder).                       *)
(***************************************************************************)
\* the file cannot be read, or holds nothing but whitespace
EmptyContent(file) ==
    ~file.readable \/ \A k \in 1..Len(file.content) : IsSpace(file.content[k])

\* the files of a chunk that have an identifier and content
Usable(files) ==
    SelectSeq(files, LAMBDA f : DigitGroup(f.name) # <<>> /\ ~EmptyContent(f))

\* C21: a file whose content is empty after stripping, or that cannot be read,
\* is left out of the batch of its chunk and never ends the folder: a chunk
\* without usable file is skipped with no submission and no exception, a batch
\* that is built holds exactly the usable files of its chunk, with their
\* stripped content, an exception while a batch is built needs a usable file,
\* and every job ever submitted has an item and no item without respuesta.
C21_EmptyFilesExcluded ==
    [][/\ \A j \in 1..Len(jobs') :
              /\ jobs'[j].items # <<>>
              /\ \A k \in 1..Len(jobs'[j].items) : jobs'[j].items[k].respuesta # <<>>
       /\ (pc = "batch" /\ i < Len(nor_files)) =>
              LET usable == Usable(batch_files)
              IN  /\ usable = <<>> =>
                        /\ pc' = "batch"
                        /\ i' = i + batch_size
                        /\ jobs' = jobs
                        /\ outcomes' = outcomes
                  /\ pc' = "submit" =>
                        /\ Len(batch_items') = Len(usable)
                        /\ \A k \in 1..Len(usable) :
                              /\ batch_items'[k].id_alumno = DigitGroup(usable[k].name)
                              /\ batch_items'[k].respuesta = Strip(usable[k].content)
                              /\ file_metadata'[k].filename = usable[k].name
      ]_vars

\* the loop is over: the first chunk held a file without content and a usable
\* one, which was submitted alone, and the second chunk, whose only file cannot
\* be read or is blank, was skipped
C21_Witness ==
    /\ pc = "batch"
    /\ i >= Len(nor_files)
    /\ Len(visited) = 2
    /\ Len(visited[1]) = 2
    /\ \E k \in 1..2 : DigitGroup(visited[1][k].name) # <<>> /\ EmptyContent(visited[1][k])
    /\ \A k \in 1..Len(visited[2]) : EmptyContent(visited[2][k])
    /\ Len(jobs) = 1
    /\ jobs[1].at = 0
    /\ Len(jobs[1].items) = 1

(***************************************************************************)
(* Repeated results (checked under SpecRepeat).                            *)
(***************************************************************************)
\* the rows the last matching step appended
RowsOfLastJob == SubSeq(all_results, Len(all_results) - Len(MatchedResults) + 1, Len(all_results))

\* C22: repeated results are neither rejected nor deduplicated: the matching
\* step of a job appends one row for each result entry whose id_alumno is the
\* id of an item of the batch, repeated entries included, in arrival order and
\* with the nota and feedback of the entry, it never ends the folder, and so
\* the rows of a job are as many as the matched entries, however many items
\* the batch has.
C22_RepeatedResultsKept ==
    [][pc = "reconcile" =>
          /\ pc' = "batch"
          /\ outcomes' = outcomes
          /\ Len(all_results') = Len(all_results) + Len(MatchedResults)
          /\ RowKeys(SubSeq(all_results', Len(all_results) + 1, Len(all_results')))
                 = ResultKeys(MatchedResults)
      ]_vars

\* a job of one item got two results for its id in one frame, with different
\* marks, and has two rows, in the order of the entries
C22_Witness ==
    /\ JustReconciled
    /\ Len(LastJob.items) = 1
    /\ Len(results) = 2
    /\ results[1].id_alumno = results[2].id_alumno
    /\ results[1].nota # results[2].nota
    /\ Len(RowsOfLastJob) = 2
    /\ RowsOfLastJob[1].nota = results[1].nota
    /\ RowsOfLastJob[2].nota = results[2].nota

(***************************************************************************)
(* Attribution of the rows (checked under SpecFolder).                     *)
(***************************************************************************)
\* the position of the first entry of a sequence of records with the id
FirstWithId(entries, id) ==
    CHOOSE m \in 1..Len(entries) :
        /\ entries[m].id = id
        /\ \A j \in 1..(m - 1) : entries[j].id # id

\* the first usable file of a chunk whose name gives the id
FirstFileWithId(files, id) ==
    Head(SelectSeq(Usable(files), LAMBDA f : DigitGroup(f.name) = id))

\* C23: every row the matching step of a job appends carries the folder being
\* processed and the filename, curso and consigna of the first entry of the
\* file_metadata of the batch whose id is the id_alumno of the result; the item
\* submitted at that position in the same job has that id, curso and consigna;
\* and the filename is the name of the first file of the chunk, in scan order,
\* with that id, so a later file with the same id gets no row.
C23_RowAttribution ==
    [][pc = "reconcile" =>
          \A k \in (Len(all_results) + 1)..Len(all_results') :
              LET row   == all_results'[k]
                  first == FirstWithId(file_metadata, row.id)
              IN  /\ row.folder = folder.name
                  /\ row.filename = file_metadata[first].filename
                  /\ row.curso = file_metadata[first].curso
                  /\ row.consigna = file_metadata[first].consigna
                  /\ LastJob.items[first].id_alumno = row.id
                  /\ LastJob.items[first].curso = row.curso
                  /\ LastJob.items[first].consigna = row.consigna
                  /\ row.filename = FirstFileWithId(batch_files, row.id).name
      ]_vars

\* a batch of two files with the same id got a result for it: the row names
\* the first of the two files
C23_Witness ==
    /\ JustReconciled
    /\ Len(LastJob.items) = 2
    /\ LastJob.items[1].id_alumno = LastJob.items[2].id_alumno
    /\ MatchedResults # <<>>
    /\ all_results # <<>>
    /\ Len(visited[Len(visited)]) = 2
    /\ all_results[Len(all_results)].filename = visited[Len(visited)][1].name
    /\ all_results[Len(all_results)].filename # visited[Len(visited)][2].name

====
